---------------------------- MODULE Spec2Model ----------------------------
(***************************************************************************)
(* BatteryTestAnalyzer.aggregate_data (src/battery_test_analyzer.py).      *)
(*                                                                         *)
(* The data frame is a sequence of measurement rows; a row's position in   *)
(* the sequence is its pandas index label (1..n here, 0..n-1 in pandas:    *)
(* only differences of labels are ever used).  A frame selected from the   *)
(* data frame by a boolean mask (cycle_data, charge_data, rest_periods) is *)
(* the ascending sequence of the index labels it keeps, because a mask     *)
(* selection keeps every row's original label.                             *)
(*                                                                         *)
(* Numbers.  test_time is in msec and a multiple of 1000, test_cur is in   *)
(* mA and a multiple of 1000, so that the divisions by 1000 of lines 32,   *)
(* 58 and 61 are exact and are carried out as written.  test_vol is an     *)
(* integer number of voltage steps.  CC_Ratio and Imax, which the code     *)
(* rounds to one decimal, are held in tenths.  NaN and None are the empty  *)
(* tuple, a present value v is <<v>>.  The two energy fields (lines 63-69) *)
(* are float sums divided by 3600 that nothing reads back; they are left   *)
(* out of the record.                                                      *)
(***************************************************************************)
EXTENDS Integers, Sequences, FiniteSets

VARIABLES
    data_frame,       \* self._data_frame: the parsed log (line 12)
    dt,               \* the 'dt' column added by line 32
    pc,               \* position in aggregate_data
    cycles,           \* the array the outer loop iterates (line 35)
    cycle_i,          \* position of the outer loop in cycles
    groups,           \* the rest groups of the current cycle (line 95)
    group_i,          \* position of the inner loop in groups
    ocv_drop_chg,     \* line 72, 101
    ocv_drop_dchg,    \* line 72, 105
    aggregated_data   \* line 29, 116

vars == <<data_frame, dt, pc, cycles, cycle_i, groups, group_i,
          ocv_drop_chg, ocv_drop_dchg, aggregated_data>>

-----------------------------------------------------------------------------
(* Bounds of the input logs *)

\* longest log of the two-cycle families
MaxLen == 3
\* longest log of the single-cycle family
MaxRun == 5

(* Program constants *)

MsPerSec == 1000
MilliAmps == 1000
RestStep == 4
CcStep == 1
DischargeStep == 2
AltChargeStep == 7

NaN == << >>
None == << >>
Some(v) == <<v>>
IsNaN(x) == x = << >>
Val(x) == x[1]

-----------------------------------------------------------------------------
(* Input logs *)

Row(t, cur, vol, cyc, step) ==
    [test_time |-> t, test_cur |-> cur, test_vol |-> vol, cycle |-> cyc, step_type |-> step]

\* What a row of an input log is drawn from: the gap to the previous row's
\* test_time (test_time never decreases along a log) and the other four
\* columns.
Draw(gap, cur, vol, cyc, step) ==
    [gap |-> gap, cur |-> cur, vol |-> vol, cyc |-> cyc, step |-> step]

CycleIds == {1, 2}
Volts == {1, 2}
Gaps == {0, MsPerSec, 2 * MsPerSec}

\* current and step type of a measurement: CC charge, alternate charge,
\* discharge
PhaseKinds == {<<MilliAmps, CcStep>>, <<MilliAmps, AltChargeStep>>, <<0 - MilliAmps, DischargeStep>>}
\* zero current outside a rest step, and current during a rest step
OddKinds == {<<0, DischargeStep>>, <<MilliAmps, RestStep>>}

\* Timing family: two cycles, irregular sampling, one voltage (dt, capacity,
\* charge duration and CC ratio do not read test_vol; a rest row enters none
\* of the sums, so its own gap is the regular one).
TimingDraws ==
    {Draw(g, k[1], 1, c, k[2]) : g \in Gaps, k \in PhaseKinds, c \in CycleIds}
    \cup {Draw(MsPerSec, 0, 1, c, RestStep) : c \in CycleIds}

\* Rest rows at either voltage, other rows at one voltage, regular sampling
\* (the OCV drops read test_vol of rest rows only, and never test_time).
OcvDraws(cycs, kinds) ==
    {Draw(MsPerSec, k[1], 1, c, k[2]) : k \in kinds, c \in cycs}
    \cup {Draw(MsPerSec, 0, v, c, RestStep) : v \in Volts, c \in cycs}

\* Interleaving family: two cycles, every kind of row.
InterleavedDraws == OcvDraws(CycleIds, PhaseKinds \cup OddKinds)

\* Single-cycle family: long enough for two rest runs after two phases.
RunDraws == OcvDraws({1}, PhaseKinds)

\* the log starts at time 0; a later row comes its gap after the row before it
RECURSIVE TimeOf(_, _)
TimeOf(d, i) == IF i <= 1 THEN 0 ELSE TimeOf(d, i - 1) + d[i].gap

BuildLog(d) ==
    [i \in 1..Len(d) |-> Row(TimeOf(d, i), d[i].cur, d[i].vol, d[i].cyc, d[i].step)]

DrawsUpTo(S, n) == UNION {[1..k -> S] : k \in 0..n}

OcvLogs ==
    {BuildLog(d) : d \in DrawsUpTo(InterleavedDraws, MaxLen)}
    \cup {BuildLog(d) : d \in DrawsUpTo(RunDraws, MaxRun)}

TimingLogs == {BuildLog(d) : d \in DrawsUpTo(TimingDraws, MaxLen)}

-----------------------------------------------------------------------------
(* pandas operations, as aggregate_data uses them *)

Front(s) == SubSeq(s, 1, Len(s) - 1)
Last(s) == s[Len(s)]
Range(s) == {s[k] : k \in 1..Len(s)}

\* Mutant of DeltaTime: the difference is taken within each cycle
DeltaTimePerCycle(df) ==
    [i \in 1..Len(df) |->
        LET before == {j \in 1..(i - 1) : df[j].cycle = df[i].cycle}
        IN  IF before = {} THEN << >>
            ELSE LET j == CHOOSE x \in before : \A y \in before : x >= y
                 IN  <<(df[i].test_time - df[j].test_time) \div MsPerSec>>]

\* Series.diff() / 1000 of line 32: NaN for the first row of the frame
DeltaTime(df) ==
    [i \in 1..Len(df) |->
        IF i = 1 THEN NaN
        ELSE Some((df[i].test_time - df[i - 1].test_time) \div MsPerSec)]

\* Mutant of Unique: the distinct values in ascending order
RECURSIVE UniqueSorted(_)
UniqueSorted(col) ==
    IF col = << >> THEN << >>
    ELSE LET S == {col[k] : k \in 1..Len(col)}
             m == CHOOSE x \in S : \A y \in S : x <= y
         IN  <<m>> \o UniqueSorted(SelectSeq(col, LAMBDA x : x # m))

\* Series.unique(): the distinct values in order of first appearance
RECURSIVE Unique(_)
Unique(col) ==
    IF col = << >> THEN << >>
    ELSE LET seen == Unique(Front(col))
         IN  IF Last(col) \in Range(seen) THEN seen ELSE Append(seen, Last(col))

CycleColumn(df) == [i \in 1..Len(df) |-> df[i].cycle]

AllIndex(df) == [i \in 1..Len(df) |-> i]

\* Mutant of CycleData: the cycle mask is not applied
CycleDataWholeFrame(df, cycle) == [i \in 1..Len(df) |-> i]

\* line 37: the rows of the current cycle, with their labels
CycleData(df, cycle) == SelectSeq(AllIndex(df), LAMBDA i : df[i].cycle = cycle)

\* Mutant of DischargeData: the comparison of line 40 copied unchanged
DischargeDataPositive(df, cd) == SelectSeq(cd, LAMBDA i : df[i].test_cur > 0)

\* lines 40, 43
ChargeData(df, cd) == SelectSeq(cd, LAMBDA i : df[i].test_cur > 0)
DischargeData(df, cd) == SelectSeq(cd, LAMBDA i : df[i].test_cur < 0)

\* Series.sum(): NaN entries are skipped, the empty sum is 0
RECURSIVE SumSkipNa(_, _)
SumSkipNa(frame, col) ==
    IF frame = << >> THEN 0
    ELSE SumSkipNa(Front(frame), col)
         + (IF IsNaN(col[Last(frame)]) THEN 0 ELSE Val(col[Last(frame)]))

\* elementwise test_cur * dt (NaN where dt is NaN)
CurTimesDt(df, d) ==
    [i \in 1..Len(df) |-> IF IsNaN(d[i]) THEN NaN ELSE Some(df[i].test_cur * Val(d[i]))]

\* round(num / den, 1) in tenths, ties to even (den > 0)
Round1(num, den) ==
    LET q == (10 * num) \div den
        r == (10 * num) % den
    IN  IF 2 * r < den THEN q
        ELSE IF 2 * r > den THEN q + 1
        ELSE IF q % 2 = 0 THEN q ELSE q + 1

Abs(x) == IF x < 0 THEN 0 - x ELSE x
SetMin(S) == CHOOSE x \in S : \A y \in S : x <= y
SetMax(S) == CHOOSE x \in S : \A y \in S : x >= y

\* lines 49, 52, 55
VMin(df, cd) == SetMin({df[i].test_vol : i \in Range(cd)})
VMax(df, cd) == SetMax({df[i].test_vol : i \in Range(cd)})
IMax(df, cd) == Round1(SetMax({Abs(df[i].test_cur) : i \in Range(cd)}), MilliAmps)

\* lines 58, 61
CapChg(df, d, cd) == SumSkipNa(ChargeData(df, cd), CurTimesDt(df, d)) \div MilliAmps
CapDchg(df, d, cd) == SumSkipNa(DischargeData(df, cd), CurTimesDt(df, d)) \div MilliAmps

\* Mutant of ShiftedStepType: the shift is taken on the whole data frame
ShiftedStepTypeWholeFrame(df, cd) ==
    [i \in {cd[k] : k \in 1..Len(cd)} |->
        IF i = 1 THEN << >> ELSE <<df[i - 1].step_type>>]

\* line 76: step_type.shift(1) within cycle_data, by index label
ShiftedStepType(df, cd) ==
    [i \in Range(cd) |->
        LET p == CHOOSE k \in 1..Len(cd) : cd[k] = i
        IN  IF p = 1 THEN NaN ELSE Some(df[cd[p - 1]].step_type)]

\* line 79
RestPeriods(df, cd) ==
    SelectSeq(cd, LAMBDA i : df[i].test_cur = 0 /\ df[i].step_type = RestStep)

\* lines 85, 88: the label of row k of rest_periods is one more than the
\* label of row k-1 (the first row's index_diff is NaN, which is not 1)
IsConsecutive(rp, k) == k > 1 /\ rp[k] - rp[k - 1] = 1

\* line 92: cumulative count of the rows that are not consecutive
RECURSIVE GroupId(_, _)
GroupId(rp, k) ==
    IF k = 0 THEN 0
    ELSE GroupId(rp, k - 1) + (IF IsConsecutive(rp, k) THEN 0 ELSE 1)

\* line 95: groupby('group_id') yields the groups in increasing group id
RestGroups(rp) ==
    [g \in 1..GroupId(rp, Len(rp)) |->
        SelectSeq(rp, LAMBDA i : GroupId(rp, CHOOSE k \in 1..Len(rp) : rp[k] = i) = g)]

\* rest_group.iloc[-1]['test_vol'] - rest_group.iloc[0]['test_vol']
VoltageDelta(df, group) == df[Last(group)].test_vol - df[group[1]].test_vol

\* Mutant of NextOcvDropChg: first match only, as on the discharge side
NextOcvDropChgFirstOnly(cur, shifted, delta) ==
    IF cur = 0 /\ shifted # << >> /\ shifted[1] \in {CcStep, AltChargeStep} THEN delta
    ELSE cur

\* lines 100-101
NextOcvDropChg(cur, shifted, delta) ==
    IF ~IsNaN(shifted) /\ Val(shifted) \in {CcStep, AltChargeStep} THEN delta ELSE cur

\* lines 104-105
NextOcvDropDchg(cur, shifted, delta) ==
    IF cur = 0 /\ ~IsNaN(shifted) /\ Val(shifted) \in {DischargeStep} THEN delta ELSE cur

\* line 108
ChargeDuration(df, d, cd) == SumSkipNa(ChargeData(df, cd), d)

\* Mutant of CcChargeTime: the CC rows are taken from the whole data frame
CcChargeTimeWholeFrame(df, d, cd) ==
    SumSkipNa(SelectSeq([i \in 1..Len(df) |-> i],
                        LAMBDA i : df[i].test_cur > 0 /\ df[i].step_type = CcStep), d)

\* line 111
CcChargeTime(df, d, cd) ==
    SumSkipNa(SelectSeq(ChargeData(df, cd), LAMBDA i : df[i].step_type = CcStep), d)

\* Mutant of CcRatio: the guard tests the CC charge time
CcRatioGuardsCcTime(cc_charge_time, charge_duration) ==
    IF cc_charge_time > 0 THEN <<Round1(100 * cc_charge_time, charge_duration)>>
    ELSE << >>

\* line 114
CcRatio(cc_charge_time, charge_duration) ==
    IF charge_duration > 0 THEN Some(Round1(100 * cc_charge_time, charge_duration))
    ELSE None

-----------------------------------------------------------------------------
(* aggregate_data *)

InitWith(logs) ==
    /\ data_frame \in logs
    /\ dt = << >>
    /\ pc = "start"
    /\ cycles = << >>
    /\ cycle_i = 1
    /\ groups = << >>
    /\ group_i = 1
    /\ ocv_drop_chg = 0
    /\ ocv_drop_dchg = 0
    /\ aggregated_data = << >>

Init == InitWith(OcvLogs)

InitTiming == InitWith(TimingLogs)

\* lines 29-35: the dt column, and the cycles to iterate
AddDeltaTime ==
    /\ pc = "start"
    /\ dt' = DeltaTime(data_frame)
    /\ cycles' = Unique(CycleColumn(data_frame))
    /\ pc' = "loop"
    /\ UNCHANGED <<data_frame, cycle_i, groups, group_i, ocv_drop_chg,
                   ocv_drop_dchg, aggregated_data>>

\* lines 35-92: next cycle, up to the grouping of its rest periods
BeginCycle ==
    /\ pc = "loop"
    /\ cycle_i <= Len(cycles)
    /\ LET cycle_data == CycleData(data_frame, cycles[cycle_i])
       IN  groups' = RestGroups(RestPeriods(data_frame, cycle_data))
    /\ group_i' = 1
    /\ ocv_drop_chg' = 0
    /\ ocv_drop_dchg' = 0
    /\ pc' = "rest"
    /\ UNCHANGED <<data_frame, dt, cycles, cycle_i, aggregated_data>>

\* lines 95-105: one rest group
RestGroupStep ==
    /\ pc = "rest"
    /\ group_i <= Len(groups)
    /\ LET cycle_data == CycleData(data_frame, cycles[cycle_i])
           rest_group == groups[group_i]
           shifted == ShiftedStepType(data_frame, cycle_data)[rest_group[1]]
           delta == VoltageDelta(data_frame, rest_group)
       IN  /\ ocv_drop_chg' = NextOcvDropChg(ocv_drop_chg, shifted, delta)
           /\ ocv_drop_dchg' = NextOcvDropDchg(ocv_drop_dchg, shifted, delta)
    /\ group_i' = group_i + 1
    /\ UNCHANGED <<data_frame, dt, pc, cycles, cycle_i, groups, aggregated_data>>

\* lines 107-129: the record of the cycle
EmitCycle ==
    /\ pc = "rest"
    /\ group_i > Len(groups)
    /\ LET cycle == cycles[cycle_i]
           cycle_data == CycleData(data_frame, cycle)
           charge_duration == ChargeDuration(data_frame, dt, cycle_data)
           cc_charge_time == CcChargeTime(data_frame, dt, cycle_data)
       IN  aggregated_data' = Append(aggregated_data,
               [Cycle |-> cycle,
                Vmin |-> VMin(data_frame, cycle_data),
                Vmax |-> VMax(data_frame, cycle_data),
                Imax |-> IMax(data_frame, cycle_data),
                Cap_Chg |-> CapChg(data_frame, dt, cycle_data),
                Cap_DChg |-> CapDchg(data_frame, dt, cycle_data),
                OCV_Drop_Chg |-> ocv_drop_chg,
                OCV_Drop_DChg |-> ocv_drop_dchg,
                Charge_Duration |-> charge_duration,
                CC_Ratio |-> CcRatio(cc_charge_time, charge_duration)])
    /\ cycle_i' = cycle_i + 1
    /\ pc' = "loop"
    /\ UNCHANGED <<data_frame, dt, cycles, groups, group_i, ocv_drop_chg, ocv_drop_dchg>>

\* line 131
Return ==
    /\ pc = "loop"
    /\ cycle_i > Len(cycles)
    /\ pc' = "done"
    /\ UNCHANGED <<data_frame, dt, cycles, cycle_i, groups, group_i,
                   ocv_drop_chg, ocv_drop_dchg, aggregated_data>>

Next == AddDeltaTime \/ BeginCycle \/ RestGroupStep \/ EmitCycle \/ Return

\* aggregate_data on the logs that vary the columns the OCV drops read
Spec == Init /\ [][Next]_vars

\* aggregate_data on the logs that vary the columns the time sums read
SpecTiming == InitTiming /\ [][Next]_vars

-----------------------------------------------------------------------------
(* Vocabulary of the properties, stated on the log itself *)

RowsOf(df, c) == {i \in 1..Len(df) : df[i].cycle = c}
CyclesIn(df) == {df[i].cycle : i \in 1..Len(df)}
FirstRowOf(df, c) == SetMin(RowsOf(df, c))

\* the measurement before row i in its own cycle (0: i opens its cycle)
PrevInCycle(df, i) ==
    LET before == {j \in RowsOf(df, df[i].cycle) : j < i}
    IN  IF before = {} THEN 0 ELSE SetMax(before)

\* row i comes right after a measurement of its cycle whose step type is in steps
Follows(df, i, steps) ==
    PrevInCycle(df, i) # 0 /\ df[PrevInCycle(df, i)].step_type \in steps

\* row i passes the rest filter
IsRestRow(df, i) == df[i].test_cur = 0 /\ df[i].step_type = RestStep

NonDecreasing(df) == \A i \in 2..Len(df) : df[i - 1].test_time <= df[i].test_time

Interleaved(df) ==
    \E i, j, k \in 1..Len(df) :
        i < j /\ j < k /\ df[i].cycle = df[k].cycle /\ df[j].cycle # df[i].cycle

RECURSIVE SumOver(_, _)
SumOver(S, f) ==
    IF S = {} THEN 0
    ELSE LET x == CHOOSE y \in S : TRUE IN f[x] + SumOver(S \ {x}, f)

\* gap in seconds between row i and the row before it in the whole log
GapBefore(df) ==
    [i \in 1..Len(df) |->
        IF i = 1 THEN 0 ELSE (df[i].test_time - df[i - 1].test_time) \div MsPerSec]

ChargeRowsOf(df, c) == {i \in RowsOf(df, c) : df[i].test_cur > 0}
DischargeRowsOf(df, c) == {i \in RowsOf(df, c) : df[i].test_cur < 0}

Records == {aggregated_data[k] : k \in 1..Len(aggregated_data)}

\* the rest runs of cycle c as the grouping of lines 79-95 forms them
RunsOf(df, c) == RestGroups(RestPeriods(df, CycleData(df, c)))

\* positions, among the first n runs of cycle c, of the runs that follow a
\* measurement whose step type is in steps
Qualifying(df, c, n, steps) ==
    {g \in 1..n : Follows(df, RunsOf(df, c)[g][1], steps)}

-----------------------------------------------------------------------------
(* C1 *)

\* C1: one record per distinct cycle value of the log, in the order in which
\* the cycle values first appear in the log (not sorted), interleaved or not.
\* While the loop runs the records are the first cycle_i - 1 of them.
C1_OneRecordPerCycleInFirstAppearanceOrder ==
    /\ \A j, k \in 1..Len(aggregated_data) :
          j < k => /\ aggregated_data[j].Cycle # aggregated_data[k].Cycle
                   /\ FirstRowOf(data_frame, aggregated_data[j].Cycle)
                        < FirstRowOf(data_frame, aggregated_data[k].Cycle)
    /\ \A r \in Records : r.Cycle \in CyclesIn(data_frame)
    /\ \A r \in Records : \A c \in CyclesIn(data_frame) :
          FirstRowOf(data_frame, c) < FirstRowOf(data_frame, r.Cycle)
              => \E q \in Records : q.Cycle = c
    /\ pc = "done" => {r.Cycle : r \in Records} = CyclesIn(data_frame)

\* an interleaved log whose later-numbered cycle appears first
C1_Witness ==
    /\ pc = "done"
    /\ Interleaved(data_frame)
    /\ Len(aggregated_data) = 2
    /\ aggregated_data[1].Cycle > aggregated_data[2].Cycle

-----------------------------------------------------------------------------
(* C7, C5, C6, C9: delta time, charge duration, CC ratio, capacity *)

\* C7: Charge_Duration of a cycle is the sum, over its rows with test_cur > 0,
\* of the gap in seconds to the preceding row of the whole log, whatever cycle
\* that row belongs to; the first row of the log adds 0.
C7_ChargeDurationSumsLogWideGaps ==
    \A r \in Records :
        r.Charge_Duration
            = SumOver(ChargeRowsOf(data_frame, r.Cycle), GapBefore(data_frame))

\* the log opens with a charge row, and a later cycle opens with a charge row
\* that comes a positive gap after a row of another cycle
C7_Witness ==
    /\ pc = "done"
    /\ Len(data_frame) > 0
    /\ data_frame[1].test_cur > 0
    /\ \E r \in Records :
          LET i == FirstRowOf(data_frame, r.Cycle)
          IN  /\ i > 1
              /\ data_frame[i].test_cur > 0
              /\ GapBefore(data_frame)[i] > 0
              /\ r.Charge_Duration > 0

\* C5: on a log whose test_time never decreases, a cycle with
\* Charge_Duration > 0 has 0 <= CC_Ratio <= 100 (tenths: 0..1000), the CC
\* charge time lying between 0 and the charge duration.
C5_CcRatioWithinBounds ==
    NonDecreasing(data_frame) =>
        \A r \in Records :
            r.Charge_Duration > 0 =>
                /\ r.CC_Ratio # None
                /\ 0 <= Val(r.CC_Ratio) /\ Val(r.CC_Ratio) <= 1000
                /\ LET cc == CcChargeTime(data_frame, dt, CycleData(data_frame, r.Cycle))
                   IN  0 <= cc /\ cc <= r.Charge_Duration

\* a cycle that charges partly in CC mode: a ratio strictly inside the range
\* that is not a whole percentage
C5_Witness ==
    \E r \in Records :
        /\ r.Charge_Duration > 0
        /\ r.CC_Ratio # None
        /\ 0 < Val(r.CC_Ratio) /\ Val(r.CC_Ratio) < 1000
        /\ Val(r.CC_Ratio) % 10 # 0

\* C6: CC_Ratio is None exactly when Charge_Duration is 0; aggregation goes
\* on to the end and emits a record for every cycle (no step faults: every
\* cycle whose rest groups are done gets its record).
C6_CcRatioAbsentIffNoChargeDuration ==
    /\ \A r \in Records : (r.CC_Ratio = None) <=> (r.Charge_Duration = 0)
    /\ (pc = "rest" /\ group_i > Len(groups)) => ENABLED EmitCycle
    /\ pc = "done" => \A c \in CyclesIn(data_frame) : \E r \in Records : r.Cycle = c

\* a cycle with charge rows whose dt are all 0 or undefined gets None, and
\* the record of a later cycle, which has a ratio, follows it
C6_Witness ==
    /\ pc = "done"
    /\ Len(aggregated_data) = 2
    /\ aggregated_data[1].CC_Ratio = None
    /\ ChargeRowsOf(data_frame, aggregated_data[1].Cycle) # {}
    /\ 1 \in ChargeRowsOf(data_frame, aggregated_data[1].Cycle)
    /\ Cardinality(ChargeRowsOf(data_frame, aggregated_data[1].Cycle)) = 2
    /\ aggregated_data[2].CC_Ratio # None

\* C9: on a log whose test_time never decreases, Cap_DChg <= 0 <= Cap_Chg,
\* and Cap_DChg < 0 when the cycle has a discharge row with a positive dt.
C9_CapacitySigns ==
    NonDecreasing(data_frame) =>
        \A r \in Records :
            /\ r.Cap_DChg <= 0
            /\ r.Cap_Chg >= 0
            /\ (\E i \in DischargeRowsOf(data_frame, r.Cycle) :
                    GapBefore(data_frame)[i] > 0) => r.Cap_DChg < 0

\* a cycle that both charges and discharges over positive gaps
C9_Witness ==
    \E r \in Records :
        /\ r.Cap_DChg < 0
        /\ r.Cap_Chg > 0
        /\ \E i \in DischargeRowsOf(data_frame, r.Cycle) : GapBefore(data_frame)[i] > 0

-----------------------------------------------------------------------------
(* C3, C4, C2, C8, C10: rest runs and OCV drops *)

\* voltage of the last row of run g of cycle c minus that of its first row
RunDelta(df, c, g) ==
    LET run == RunsOf(df, c)[g]
    IN  df[run[Len(run)]].test_vol - df[run[1]].test_vol

\* rows a and b are in the same rest group of the current cycle
SameGroup(a, b) ==
    \E g \in 1..Len(groups) : a \in Range(groups[g]) /\ b \in Range(groups[g])

\* C3: two rows of a cycle that pass the rest filter are in the same rest run
\* exactly when every row of the cycle between them passes the filter too,
\* also when rows of another cycle lie between them in the log.
C3_RunsAreMaximalPerCycleBlocks ==
    pc = "rest" =>
        \A a, b \in RowsOf(data_frame, cycles[cycle_i]) :
            (a < b /\ IsRestRow(data_frame, a) /\ IsRestRow(data_frame, b)) =>
                (SameGroup(a, b)
                    <=> \A k \in RowsOf(data_frame, cycles[cycle_i]) :
                            (a < k /\ k < b) => IsRestRow(data_frame, k))

\* the charge-side drop after the first n runs of cycle c: the delta of the
\* last of them that follows a step of type 1 or 7, 0 without one
LastChargeDrop(df, c, n) ==
    LET Q == Qualifying(df, c, n, {CcStep, AltChargeStep})
    IN  IF Q = {} THEN 0 ELSE RunDelta(df, c, SetMax(Q))

C2_DischargeDropIsFirstQualifyingRun ==
    \A r \in Records :
        LET Q == Qualifying(data_frame, r.Cycle, Len(RunsOf(data_frame, r.Cycle)),
                            {DischargeStep})
        IN  r.OCV_Drop_DChg
                = IF Q = {} THEN 0 ELSE RunDelta(data_frame, r.Cycle, SetMin(Q))

\* C8: a cycle none of whose rows has test_cur == 0 and step_type == 4 gets
\* OCV_Drop_Chg = 0 and OCV_Drop_DChg = 0.
C8_NoRestRowsNoOcvDrop ==
    \A r \in Records :
        (\A i \in RowsOf(data_frame, r.Cycle) : ~IsRestRow(data_frame, i)) =>
            r.OCV_Drop_Chg = 0 /\ r.OCV_Drop_DChg = 0

\* such a cycle, with a zero-current row after a charge row, next to a cycle
\* that has a rest row
C8_Witness ==
    \E r \in Records :
        /\ \A i \in RowsOf(data_frame, r.Cycle) : ~IsRestRow(data_frame, i)
        /\ \E i \in RowsOf(data_frame, r.Cycle) :
              data_frame[i].test_cur = 0 /\ Follows(data_frame, i, {CcStep, AltChargeStep})
        /\ \E i \in 1..Len(data_frame) :
              data_frame[i].cycle # r.Cycle /\ IsRestRow(data_frame, i)

\* a step of the inner loop over the rest group that begins at row first
C10_Step ==
    (pc = "rest" /\ group_i' = group_i + 1) =>
        LET first == groups[group_i][1]
        IN  /\ PrevInCycle(data_frame, first) = 0 =>
                  ocv_drop_chg' = ocv_drop_chg /\ ocv_drop_dchg' = ocv_drop_dchg
            /\ ocv_drop_chg' # ocv_drop_chg =>
                  Follows(data_frame, first, {CcStep, AltChargeStep})
            /\ ocv_drop_dchg' # ocv_drop_dchg =>
                  Follows(data_frame, first, {DischargeStep})

\* C10: the shifted step type is taken within the cycle: a rest run that
\* begins at the first row of its cycle changes neither OCV drop, whatever the
\* row before it in the log is; a run changes OCV_Drop_Chg only if the row
\* before it in its cycle has step type 1 or 7, and OCV_Drop_DChg only if
\* that row has step type 2.
C10_ShiftedStepTypeIsPerCycle == [][C10_Step]_vars

\* a run with a nonzero delta opens its cycle right after a charge or
\* discharge row of another cycle, and has left both drops at 0
C10_Witness ==
    /\ pc = "rest"
    /\ group_i = 2
    /\ LET first == groups[1][1]
       IN  /\ PrevInCycle(data_frame, first) = 0
           /\ first > 1
           /\ data_frame[first - 1].step_type \in {CcStep, AltChargeStep, DischargeStep}
           /\ data_frame[Last(groups[1])].test_vol # data_frame[first].test_vol
    /\ ocv_drop_chg = 0
    /\ ocv_drop_dchg = 0

=============================================================================
